---- MODULE Spec2Model ----
(***************************************************************************)
(* Static-site search of ox-content: the query engine embedded in the      *)
(* generated page (SSG_JS in crates/ox_content_napi/src/lib.rs), the napi  *)
(* entry points build_search_index / search_index, and the index they      *)
(* exchange.                                                               *)
(*                                                                         *)
(* Text is a sequence of Unicode code points (naturals).  Scores are IEEE  *)
(* doubles in the program; here they are fixed-point naturals (see         *)
(* Contribution), with NaN as a value of its own.                          *)
(***************************************************************************)
EXTENDS Integers, Sequences, FiniteSets, TLC

VARIABLES
    pc,         \* which harness step has run ("start", ..., "done"; "client" in Spec)
    tokText,    \* tokenizer harness: the input text
    tokOut,     \* tokenizer harness: the result of tokenize(tokText)
    corpus,     \* search harness: the documents given to build_search_index
    indexJson,  \* search harness: the serialized index handed to the engines
    queryText,  \* search harness: the query string
    jsRet,      \* search harness: what search(query) of SSG_JS did
    rsRet,      \* search harness: what search_index(indexJson, query, options) returned
    searchIndex,  \* page: `searchIndex`, null or the parsed search-index.json
    selectedIdx,  \* page: `selectedIdx`
    results,      \* page: `results`
    timeout,      \* page: whether the debounce timer `timeout` is still to fire
    timers,       \* page: the number of timers set by setTimeout and still to fire
    rearmed,      \* page: whether the latest step was an input event that
                  \*       cleared a pending timer before it set its own
    html,         \* page: searchResults.innerHTML
    inputValue,   \* page: searchInput.value
    isOpen,       \* page: whether searchOverlay has the class `open`
    pending,      \* page: the queries of the searches suspended in loadIndex
    fetches,      \* page: the number of fetches of search-index.json issued
    assigned,     \* page: the number of assignments loadIndex has made to searchIndex
    href,         \* page: location.href once Enter has navigated, else ""
    uncaught,     \* page: whether a search has ended in an uncaught TypeError
    last,         \* page: the search the latest step ended, if it ended one
    exSource,   \* extraction harness: the Markdown source
    exId,       \* extraction harness: the id the caller gives the document
    exParses,   \* extraction harness: whether the Markdown parser accepts the content
    exDoc,      \* extraction harness: what extract_search_content returned
    bDocs,      \* build harness: the documents given to build_search_index
    bNext,      \* build harness: the place in bDocs of the document the loop adds next
    builder,    \* build harness: the SearchIndexBuilder
    bCalls,     \* build harness: the calls build_search_index has made on the builder
    bOut,       \* build harness: the JSON build_search_index returned
    bRefused    \* build harness: whether an add_document after build was refused

tokVars == <<tokText, tokOut>>
searchVars == <<corpus, indexJson, queryText, jsRet, rsRet>>
pageVars == <<searchIndex, selectedIdx, results, timeout, timers, rearmed, html,
              inputValue, isOpen, pending, fetches, assigned, href, uncaught, last>>
extractVars == <<exSource, exId, exParses, exDoc>>
buildVars == <<bDocs, bNext, builder, bCalls, bOut, bRefused>>
vars == <<pc, tokVars, searchVars, pageVars, extractVars, buildVars>>

\* ---------------------------------------------------------------- bounds

\* Longest text given to the tokenizer harness.
MaxTextLen == 4

\* Most documents of a small corpus.
MaxDocs == 3

\* Most pieces (words, punctuation) of a query.
MaxQueryPieces == 2

\* Most searches suspended in loadIndex at a time.
MaxPending == 2

\* Most fetches of search-index.json a page issues.
MaxFetches == 3

\* ------------------------------------------------------------ characters

\* The code points texts are drawn from: a, b, B, _, 1, space, !, and the
\* CJK ideograph U+4E2D.
Alphabet == {97, 98, 66, 95, 49, 32, 33, 20013}

\* /[\u4E00-\u9FFF\u3400-\u4DBF\u3040-\u309F\u30A0-\u30FF\uAC00-\uD7AF]/.test(ch)
IsCJK(ch) ==
    \/ (ch >= 19968 /\ ch <= 40959)
    \/ (ch >= 13312 /\ ch <= 19903)
    \/ (ch >= 12352 /\ ch <= 12447)
    \/ (ch >= 12448 /\ ch <= 12543)
    \/ (ch >= 44032 /\ ch <= 55215)

\* /[a-zA-Z0-9_]/.test(ch)
IsWordChar(ch) ==
    \/ (ch >= 97 /\ ch <= 122)
    \/ (ch >= 65 /\ ch <= 90)
    \/ (ch >= 48 /\ ch <= 57)
    \/ ch = 95

\* String.prototype.toLowerCase on ASCII and caseless (CJK) text: A-Z map to
\* a-z, every other code point of Alphabet is its own lower case.
ToLowerCase(s) ==
    [i \in 1..Len(s) |-> IF s[i] >= 65 /\ s[i] <= 90 THEN s[i] + 32 ELSE s[i]]

\* ------------------------------------------------- SSG_JS tokenize (1067)

\* if(c){r.push(c.toLowerCase());c=''} : the term list after the flush.
FlushKeepCase(r, c) == IF c # <<>> THEN Append(r, c) ELSE r

Flush(r, c) == IF c # <<>> THEN Append(r, ToLowerCase(c)) ELSE r

\* for(const ch of t){...} from position i with buffer c and terms r, then
\* the flush after the loop.
RECURSIVE TokenizeLoop(_, _, _, _)
TokenizeLoop(t, i, c, r) ==
    IF i > Len(t) THEN Flush(r, c)
    ELSE IF IsCJK(t[i]) THEN TokenizeLoop(t, i + 1, <<>>, Append(Flush(r, c), <<t[i]>>))
    ELSE IF IsWordChar(t[i]) THEN TokenizeLoop(t, i + 1, Append(c, t[i]), r)
    ELSE IF c # <<>> THEN TokenizeLoop(t, i + 1, <<>>, Flush(r, c))
    ELSE TokenizeLoop(t, i + 1, c, r)

tokenize(t) == TokenizeLoop(t, 1, <<>>, <<>>)

\* ------------------------------------- the shared Tokenizer (spec 4.4)

\* The tokenizer of crate ox_content_search, which the index builder uses,
\* by the terms it yields: a term starts at every CJK character and at
\* every [A-Za-z0-9_] character that does not follow one; a CJK character
\* is a term of its own, and the other terms run to the last
\* [A-Za-z0-9_] character in a row, lowercased.  The terms are in the
\* order of their starts.
Tokenizer(s) ==
    LET starts == {i \in 1..Len(s) :
                        \/ IsCJK(s[i])
                        \/ IsWordChar(s[i]) /\ (i = 1 \/ ~IsWordChar(s[i - 1]))}
        RunEnd(i) == CHOOSE j \in i..Len(s) :
                        /\ \A k \in i..j : IsWordChar(s[k])
                        /\ (j = Len(s) \/ ~IsWordChar(s[j + 1]))
        TermAt(i) == IF IsCJK(s[i]) THEN <<s[i]>>
                     ELSE ToLowerCase(SubSeq(s, i, RunEnd(i)))
        Nth(k) == CHOOSE p \in starts : Cardinality({q \in starts : q <= p}) = k
    IN  [k \in 1..Cardinality(starts) |-> TermAt(Nth(k))]

\* ------------------------------------- the index builder (spec 3, 4.2)

\* SearchIndexBuilder of crate ox_content_search, which build_search_index
\* drives.  An index is
\*   [documents : Seq([id, title, url, body]),
\*    keys      : the terms of `index` in the order of the serialized object,
\*    index     : term -> Seq([doc_idx, field, tf]),
\*    df        : term -> number of documents holding the term,
\*    doc_count, avg_dl].
\* avg_dl is in thousandths of a character.
NewBuilder ==
    [documents |-> <<>>, keys |-> <<>>, index |-> <<>>, total_len |-> 0]

\* The fields in the order add_document indexes them.
FieldOrder == <<"Title", "Heading", "Body", "Code">>

\* The terms of every text of a sequence of texts (all headings, all code
\* blocks), in order.
RECURSIVE TermsOfAll(_)
TermsOfAll(texts) ==
    IF texts = <<>> THEN <<>>
    ELSE Tokenizer(Head(texts)) \o TermsOfAll(Tail(texts))

\* The number of occurrences of term in terms.
Occurrences(terms, term) == Cardinality({k \in 1..Len(terms) : terms[k] = term})

\* add_document: the document takes the next doc_idx (0-based); every term
\* of every field gets one posting for (term, document, field), whose tf
\* is the number of occurrences.  A term new to the index is a new key.
AddDocument(b, doc) ==
    LET d       == Len(b.documents)
        terms   == [Title |-> Tokenizer(doc.title), Heading |-> TermsOfAll(doc.headings),
                    Body |-> Tokenizer(doc.body), Code |-> TermsOfAll(doc.code)]
        stream  == terms.Title \o terms.Heading \o terms.Body \o terms.Code
        firsts  == {k \in 1..Len(stream) :
                        /\ stream[k] \notin DOMAIN b.index
                        /\ \A j \in 1..(k - 1) : stream[j] # stream[k]}
        Nth(i)  == CHOOSE p \in firsts : Cardinality({q \in firsts : q <= p}) = i
        fields(term) == SelectSeq(FieldOrder, LAMBDA f : Occurrences(terms[f], term) > 0)
        postings(term) ==
            [i \in 1..Len(fields(term)) |->
                [doc_idx |-> d, field |-> fields(term)[i],
                 tf |-> Occurrences(terms[fields(term)[i]], term)]]
    IN  [documents |-> Append(b.documents, [id |-> doc.id, title |-> doc.title,
                                            url |-> doc.url, body |-> doc.body]),
         keys      |-> b.keys \o [i \in 1..Cardinality(firsts) |-> stream[Nth(i)]],
         index     |-> [t \in DOMAIN b.index \cup {stream[k] : k \in 1..Len(stream)} |->
                            (IF t \in DOMAIN b.index THEN b.index[t] ELSE <<>>)
                                \o postings(t)],
         total_len |-> b.total_len + Len(doc.body)]

\* build: df, doc_count and avg_dl.
Build(b) ==
    [documents |-> b.documents,
     keys      |-> b.keys,
     index     |-> b.index,
     df        |-> [t \in DOMAIN b.index |->
                        Cardinality({b.index[t][k].doc_idx : k \in 1..Len(b.index[t])})],
     doc_count |-> Len(b.documents),
     avg_dl    |-> IF Len(b.documents) = 0 THEN 0
                   ELSE (b.total_len * 1000) \div Len(b.documents)]

RECURSIVE AddDocuments(_, _)
AddDocuments(b, docs) ==
    IF docs = <<>> THEN b ELSE AddDocuments(AddDocument(b, Head(docs)), Tail(docs))

\* The index build_search_index builds of `documents`: one add_document per
\* document, in order, then build.
BuiltIndex(documents) == Build(AddDocuments(NewBuilder, documents))

\* ------------------------------------------------ BM25 in fixed point

\* A score that is not a number (0/0 in the length normalisation).
NaN == -1

\* k1=1.2, b=0.75, in thousandths.
K1 == 1200

B == 750

\* The sum z + z^3/3 + z^5/5 + ... in ten-thousandths, from the term z^k.
RECURSIVE AtanhSeries(_, _, _)
AtanhSeries(zk, z2, k) ==
    IF zk = 0 THEN 0
    ELSE (zk \div k) + AtanhSeries((zk * z2) \div 10000, z2, k + 2)

\* Math.log(p/q) for p >= q > 0, in thousandths: 2 atanh((p-q)/(p+q)).
Log(p, q) ==
    LET z == ((p - q) * 10000) \div (p + q)
    IN  (2 * AtanhSeries(z, (z * z) \div 10000, 1)) \div 10

\* idf=Math.log((doc_count-df+0.5)/(df+0.5)+1), in thousandths; the
\* argument is (2 doc_count + 2) / (2 df + 1).
Idf(doc_count, df) == Log(2 * doc_count + 2, 2 * df + 1)

\* (tf*(k1+1))/(tf+k1*(1-b+b*len/avg_dl)), in thousandths.  With avg_dl = 0
\* the quotient len/avg_dl is NaN for len = 0 and Infinity otherwise.
TfComponent(tf, len, avg_dl) ==
    IF avg_dl = 0 THEN (IF len = 0 THEN NaN ELSE 0)
    ELSE LET ratio == (len * 1000000) \div avg_dl
             denom == tf * 1000 + (K1 * (1000 - B + (B * ratio) \div 1000)) \div 1000
         IN  (tf * (K1 + 1000) * 1000) \div denom

\* idf * tf component * boost, in millionths.
Contribution(idf, tfc, boost) == IF tfc = NaN THEN NaN ELSE idf * tfc * boost

\* e.score+=score
AddScore(a, s) == IF a = NaN \/ s = NaN THEN NaN ELSE a + s

\* --------------------------------------------------- sequences of text

\* t.startsWith(tok)
StartsWith(t, tok) == Len(t) >= Len(tok) /\ SubSeq(t, 1, Len(tok)) = tok

\* s.indexOf(m): the 0-based position of the first occurrence, or -1.
IndexOf(s, m) ==
    LET at == {p \in 0..(Len(s) - Len(m)) : SubSeq(s, p + 1, p + Len(m)) = m}
    IN  IF at = {} THEN -1 ELSE CHOOSE p \in at : \A o \in at : p <= o

\* s.slice(st,en) for 0 <= st <= en <= s.length.
Slice(s, st, en) == SubSeq(s, st + 1, en)

Max(x, y) == IF x >= y THEN x ELSE y

Min(x, y) == IF x <= y THEN x ELSE y

\* The three characters "...".
Ellipsis == <<46, 46, 46>>

\* ------------------------------------------------- SSG_JS search (1068)

\* The names a property read on a plain object finds on Object.prototype
\* when the object has no such key of its own, among the strings tokenize
\* can return: "constructor" and "__proto__".
ObjectPrototypeKeys ==
    { <<99, 111, 110, 115, 116, 114, 117, 99, 116, 111, 114>>,
      <<95, 95, 112, 114, 111, 116, 111, 95, 95>> }

\* searchIndex.index[key]: "own" (the posting array of the key),
\* "inherited" (a function or object of Object.prototype: truthy, and not
\* iterable) or "undefined".
IndexProperty(ix, key) ==
    IF key \in DOMAIN ix.index THEN "own"
    ELSE IF key \in ObjectPrototypeKeys THEN "inherited"
    ELSE "undefined"

\* isLast&&tok.length>=2?Object.keys(searchIndex.index).filter(t=>
\* t.startsWith(tok)):searchIndex.index[tok]?[tok]:[]
MatchTerms(ix, tok, isLast) ==
    IF isLast /\ Len(tok) >= 2
    THEN SelectSeq(ix.keys, LAMBDA t : StartsWith(t, tok))
    ELSE IF IndexProperty(ix, tok) # "undefined" THEN <<tok>> ELSE <<>>

\* boost=p.field==='Title'?10:p.field==='Heading'?5:1
BoostCodeAsHeading(field) ==
    IF field = "Title" THEN 10 ELSE IF field = "Body" THEN 1 ELSE 5

Boost(field) == IF field = "Title" THEN 10 ELSE IF field = "Heading" THEN 5 ELSE 1

\* df=searchIndex.df[term]||1
StoredDf(ix, term) ==
    IF term \in DOMAIN ix.df /\ ix.df[term] # 0 THEN ix.df[term] ELSE 1

\* score=idf*((p.tf*(k1+1))/(p.tf+k1*(1-b+b*doc.body.length/avg_dl)))*boost
PostingScore(ix, term, p) ==
    Contribution(Idf(ix.doc_count, StoredDf(ix, term)),
                 TfComponent(p.tf, Len(ix.documents[p.doc_idx + 1].body), ix.avg_dl),
                 Boost(p.field))

\* if(!scores.has(p.doc_idx))scores.set(p.doc_idx,{score:0,matches:new
\* Set()});const e=scores.get(p.doc_idx);e.score+=score;e.matches.add(term)
\* The Map is a sequence of entries in insertion order.
Accumulate(scores, idx, score, term) ==
    IF \E k \in 1..Len(scores) : scores[k].idx = idx
    THEN [k \in 1..Len(scores) |->
            IF scores[k].idx = idx
            THEN [scores[k] EXCEPT !.score = AddScore(@, score),
                                   !.matches = @ \cup {term}]
            ELSE scores[k]]
    ELSE Append(scores, [idx |-> idx, score |-> AddScore(0, score), matches |-> {term}])

\* for(const p of posts){const doc=searchIndex.documents[p.doc_idx];
\* if(!doc)continue;...}
RECURSIVE ScorePostings(_, _, _, _)
ScorePostings(ix, term, posts, scores) ==
    IF posts = <<>> THEN scores
    ELSE IF Head(posts).doc_idx + 1 \notin DOMAIN ix.documents
    THEN ScorePostings(ix, term, Tail(posts), scores)
    ELSE ScorePostings(ix, term, Tail(posts),
            Accumulate(scores, Head(posts).doc_idx,
                       PostingScore(ix, term, Head(posts)), term))

\* for(const term of terms){const posts=searchIndex.index[term]||[],...;
\* for(const p of posts){...}} : an inherited property is not iterable, and
\* for..of throws a TypeError.  acc is [threw, scores].
RECURSIVE ScoreTerms(_, _, _)
ScoreTerms(ix, terms, acc) ==
    IF terms = <<>> \/ acc.threw THEN acc
    ELSE IF IndexProperty(ix, Head(terms)) = "inherited"
    THEN [acc EXCEPT !.threw = TRUE]
    ELSE ScoreTerms(ix, Tail(terms),
            [acc EXCEPT !.scores =
                ScorePostings(ix, Head(terms),
                    IF IndexProperty(ix, Head(terms)) = "own"
                    THEN ix.index[Head(terms)] ELSE <<>>, @)])

\* for(let i=0;i<tokens.length;i++){...}, from token i (1-based).
RECURSIVE ScoreTokens(_, _, _, _)
ScoreTokens(ix, tokens, i, acc) ==
    IF i > Len(tokens) \/ acc.threw THEN acc
    ELSE ScoreTokens(ix, tokens, i + 1,
            ScoreTerms(ix, MatchTerms(ix, tokens[i], i = Len(tokens)), acc))

\* The number of characters of a snippet before the first match, and the
\* length of its window.
SnippetLead == 50

SnippetWindow == 150

\* let fp=-1;for(const m of d.matches){const pos=bl.indexOf(m);
\* if(pos!==-1&&(fp===-1||pos<fp))fp=pos}
FirstPosition(body, matches) ==
    LET found == {IndexOf(ToLowerCase(body), m) : m \in matches} \ {-1}
    IN  IF found = {} THEN -1 ELSE CHOOSE p \in found : \A o \in found : p <= o

\* let snip='';if(doc.body){...const st=Math.max(0,fp-50),en=Math.min(
\* doc.body.length,st+150);snip=doc.body.slice(st,en);if(st>0)snip='...'+
\* snip;if(en<doc.body.length)snip+='...'}
SnippetNoLead(body, matches) ==
    IF body = <<>> THEN <<>>
    ELSE LET fp == FirstPosition(body, matches)
             st == Max(0, fp)
             en == Min(Len(body), st + SnippetWindow)
         IN  (IF st > 0 THEN Ellipsis ELSE <<>>) \o Slice(body, st, en)
                \o (IF en < Len(body) THEN Ellipsis ELSE <<>>)

Snippet(body, matches) ==
    IF body = <<>> THEN <<>>
    ELSE LET fp == FirstPosition(body, matches)
             st == Max(0, fp - SnippetLead)
             en == Min(Len(body), st + SnippetWindow)
         IN  (IF st > 0 THEN Ellipsis ELSE <<>>) \o Slice(body, st, en)
                \o (IF en < Len(body) THEN Ellipsis ELSE <<>>)

\* .map(([idx,d])=>{const doc=searchIndex.documents[idx];...
\* return{...doc,score:d.score,snippet:snip}})
ResultOf(ix, e) ==
    LET doc == ix.documents[e.idx + 1]
    IN  [id |-> doc.id, title |-> doc.title, url |-> doc.url, body |-> doc.body,
         score |-> e.score, snippet |-> Snippet(doc.body, e.matches)]

\* (a,b)=>b.score-a.score : positive when a sorts after b.  NaN compares as
\* 0 with everything.
CompareAscending(a, b) ==
    IF a.score = NaN \/ b.score = NaN THEN 0 ELSE a.score - b.score

Compare(a, b) ==
    IF a.score = NaN \/ b.score = NaN THEN 0 ELSE b.score - a.score

\* x put into the sorted sequence s behind every element it does not sort
\* strictly before.
RECURSIVE InsertSorted(_, _)
InsertSorted(s, x) ==
    IF s = <<>> THEN <<x>>
    ELSE IF Compare(Head(s), x) > 0 THEN <<x>> \o s
    ELSE <<Head(s)>> \o InsertSorted(Tail(s), x)

\* Array.prototype.sort with Compare: a stable sort.
RECURSIVE SortFrom(_, _)
SortFrom(s, sorted) ==
    IF s = <<>> THEN sorted ELSE SortFrom(Tail(s), InsertSorted(sorted, Head(s)))

Sort(s) == SortFrom(s, <<>>)

\* .slice(0,10)
PageSize == 10

SliceAll(s) == s

SliceTop(s) == SubSeq(s, 1, Min(Len(s), PageSize))

\* search(q) from `const tokens=tokenize(q)` on, with searchIndex = ix a
\* parsed JSON object: what it leaves in the accumulator and in `results`.
\* outcome is "cleared" (no tokens), "threw" (a TypeError left the
\* function: ix has no `index`, so searchIndex.index is undefined and
\* reading a property of it throws, or a matched term is inherited) or
\* "rendered".
SearchLoaded(ix, q) ==
    LET tokens == tokenize(q)
        acc    == ScoreTokens(ix, tokens, 1, [threw |-> FALSE, scores |-> <<>>])
    IN  IF tokens = <<>>
        THEN [outcome |-> "cleared", tokens |-> tokens, scores |-> <<>>, results |-> <<>>]
        ELSE IF "index" \notin DOMAIN ix
        THEN [outcome |-> "threw", tokens |-> tokens, scores |-> <<>>, results |-> <<>>]
        ELSE IF acc.threw
        THEN [outcome |-> "threw", tokens |-> tokens, scores |-> <<>>, results |-> <<>>]
        ELSE [outcome |-> "rendered", tokens |-> tokens, scores |-> acc.scores,
              results |-> SliceTop(Sort(
                    [k \in 1..Len(acc.scores) |-> ResultOf(ix, acc.scores[k])]))]

\* ------------------------------ SearchIndex::search (spec 4.5) and JSON

\* The query algorithm of crate ox_content_search, options
\* [limit, prefix, fuzzy, threshold] (threshold in millionths).  Fuzzy
\* matching is left open by the specification and is not modelled: fuzzy is
\* carried and never read.
DefaultOptions == [limit |-> 10, prefix |-> TRUE, fuzzy |-> FALSE, threshold |-> 0]

\* Step 2: the index terms a token matches.
MatchedTerms(ix, tok, isLast, prefix) ==
    IF isLast /\ prefix /\ Len(tok) >= 2
    THEN SelectSeq(ix.keys, LAMBDA t : StartsWith(t, tok))
    ELSE IF tok \in DOMAIN ix.index THEN <<tok>> ELSE <<>>

\* Step 3: field_boost.
FieldBoost(field) ==
    CASE field = "Title" -> 10
      [] field = "Heading" -> 5
      [] OTHER -> 1

\* Steps 3 and 4 for the postings of one term.
RECURSIVE ScoreTermPostings(_, _, _, _)
ScoreTermPostings(ix, term, posts, scores) ==
    IF posts = <<>> THEN scores
    ELSE ScoreTermPostings(ix, term, Tail(posts),
            Accumulate(scores, Head(posts).doc_idx,
                Contribution(Idf(ix.doc_count, ix.df[term]),
                    TfComponent(Head(posts).tf,
                        Len(ix.documents[Head(posts).doc_idx + 1].body), ix.avg_dl),
                    FieldBoost(Head(posts).field)),
                term))

RECURSIVE ScoreMatchedTerms(_, _, _)
ScoreMatchedTerms(ix, terms, scores) ==
    IF terms = <<>> THEN scores
    ELSE ScoreMatchedTerms(ix, Tail(terms),
            ScoreTermPostings(ix, Head(terms), ix.index[Head(terms)], scores))

RECURSIVE ScoreQuery(_, _, _, _, _)
ScoreQuery(ix, tokens, i, prefix, scores) ==
    IF i > Len(tokens) THEN scores
    ELSE ScoreQuery(ix, tokens, i + 1, prefix,
            ScoreMatchedTerms(ix,
                MatchedTerms(ix, tokens[i], i = Len(tokens), prefix), scores))

\* Step 6: the snippet; empty when no matched term occurs in the body.
SearchSnippet(body, matches) ==
    LET fp == FirstPosition(body, matches)
        st == Max(0, fp - 50)
        en == Min(Len(body), st + 150)
    IN  IF fp = -1 THEN <<>>
        ELSE (IF st > 0 THEN Ellipsis ELSE <<>>) \o Slice(body, st, en)
                \o (IF en < Len(body) THEN Ellipsis ELSE <<>>)

\* Step 5: score < threshold is dropped (false of NaN).
AtLeast(score, threshold) == score = NaN \/ score >= threshold

Search(ix, query, options) ==
    LET scores == ScoreQuery(ix, Tokenizer(query), 1, options.prefix, <<>>)
        kept   == SelectSeq(scores, LAMBDA e : AtLeast(e.score, options.threshold))
        ranked == Sort([k \in 1..Len(kept) |->
                    [id |-> ix.documents[kept[k].idx + 1].id,
                     title |-> ix.documents[kept[k].idx + 1].title,
                     url |-> ix.documents[kept[k].idx + 1].url,
                     score |-> kept[k].score,
                     matches |-> kept[k].matches,
                     snippet |-> SearchSnippet(ix.documents[kept[k].idx + 1].body,
                                               kept[k].matches)]])
    IN  SubSeq(ranked, 1, Min(Len(ranked), options.limit))

\* A JSON text: unparseable, the literal null, or an object with fields.
Unparseable == [kind |-> "unparseable", fields |-> <<>>]

JsonNull == [kind |-> "null", fields |-> <<>>]

EmptyObject == [kind |-> "object", fields |-> <<>>]

\* SearchIndex::to_json: an object of the five fields (the order of the
\* keys of `index` goes with it).
ToJson(ix) == [kind |-> "object", fields |-> ix]

\* SearchIndex::from_json: Ok(the index) for an object of the serialized
\* shape, Err otherwise.
FromJson(json) ==
    IF json.kind = "object"
       /\ {"documents", "index", "df", "doc_count", "avg_dl"} \subseteq DOMAIN json.fields
    THEN [ok |-> TRUE, index |-> json.fields]
    ELSE [ok |-> FALSE, index |-> <<>>]

\* ------------------------------------------- napi entry points (611-686)

\* An Option<T> is a sequence of at most one T.
None == <<>>

Some(x) == <<x>>

UnwrapOr(o, d) == IF o = None THEN d ELSE o[1]

\* impl From<JsSearchOptions> for SearchOptions
SearchOptionsFromNoThreshold(opts) ==
    [limit     |-> UnwrapOr(opts.limit, 10),
     prefix    |-> UnwrapOr(opts.prefix, TRUE),
     fuzzy     |-> UnwrapOr(opts.fuzzy, FALSE),
     threshold |-> 0]

SearchOptionsFrom(opts) ==
    [limit     |-> UnwrapOr(opts.limit, 10),
     prefix    |-> UnwrapOr(opts.prefix, TRUE),
     fuzzy     |-> UnwrapOr(opts.fuzzy, FALSE),
     threshold |-> UnwrapOr(opts.threshold, 0)]

\* build_search_index(documents)
build_search_index(documents) == ToJson(BuiltIndex(documents))

search_index_losing_df(index_json, query, options) ==
    LET parsed == FromJson(index_json)
        opts   == IF options = None THEN DefaultOptions
                  ELSE SearchOptionsFrom(options[1])
    IN  IF ~parsed.ok THEN <<>>
        ELSE Search([parsed.index EXCEPT !.df = [t \in DOMAIN @ |-> 1]], query, opts)

\* search_index(index_json, query, options): the JsSearchResult of every
\* result of the search, or no result when the index does not deserialize.
search_index(index_json, query, options) ==
    LET parsed == FromJson(index_json)
        opts   == IF options = None THEN DefaultOptions
                  ELSE SearchOptionsFrom(options[1])
    IN  IF ~parsed.ok THEN <<>> ELSE Search(parsed.index, query, opts)

\* ------------------------------------------------- SSG_JS search, whole

\* What String.prototype.trim removes.
WhiteSpace ==
    {9, 10, 11, 12, 13, 32, 160, 5760, 8232, 8233, 8239, 8287, 12288, 65279}
        \cup (8192..8202)

\* !q.trim()
IsBlank(q) == \A i \in 1..Len(q) : q[i] \in WhiteSpace

\* await(await fetch(...)).json() inside try/catch: the value searchIndex
\* takes, or null when the fetch or the parse throws.
ParsedOrNull(json) == IF json.kind = "object" THEN json ELSE JsonNull

\* if(searchIndex), if(!searchIndex): an object is truthy, null is not.
Truthy(value) == value.kind = "object"

NotRun == [outcome |-> "none", tokens |-> <<>>, scores |-> <<>>, results |-> <<>>]

\* search(q) run to its end against a server that answers the fetch with
\* `json`, searchIndex being null before: outcome "cleared" (blank query,
\* or no tokens), "unavailable", "threw" or "rendered".
SearchRun(json, q) ==
    IF IsBlank(q)
    THEN [outcome |-> "cleared", tokens |-> <<>>, scores |-> <<>>, results |-> <<>>]
    ELSE IF ~Truthy(ParsedOrNull(json))
    THEN [outcome |-> "unavailable", tokens |-> <<>>, scores |-> <<>>, results |-> <<>>]
    ELSE SearchLoaded(ParsedOrNull(json).fields, q)

\* ------------------------------------------------ the page as it loads

\* innerHTML of searchResults: nothing, one of the two messages, or the
\* list render() writes (the url of every result, and the selected row).
NoHtml == [kind |-> "none", urls |-> <<>>, selected |-> 0]

IndexUnavailableHtml == [kind |-> "unavailable", urls |-> <<>>, selected |-> 0]

NoResultsHtml == [kind |-> "noresults", urls |-> <<>>, selected |-> 0]

\* `last` when the latest step ended no search.
NoSearch == [q |-> <<>>, outcome |-> "none", loaded |-> FALSE]

\* let searchIndex=null,selectedIdx=0,results=[]; let timeout=null; the
\* modal is closed and empty.
PageInit ==
    /\ searchIndex = JsonNull
    /\ selectedIdx = 0
    /\ results = <<>>
    /\ timeout = FALSE
    /\ timers = 0
    /\ rearmed = FALSE
    /\ html = NoHtml
    /\ inputValue = <<>>
    /\ isOpen = FALSE
    /\ pending = <<>>
    /\ fetches = 0
    /\ assigned = 0
    /\ href = ""
    /\ uncaught = FALSE
    /\ last = NoSearch

\* ------------------------------- extract_search_content (233-283, 1080-1113)

\* What str::trim removes (Unicode White_Space).
RustWhiteSpace ==
    {9, 10, 11, 12, 13, 32, 133, 160, 5760, 8232, 8233, 8239, 8287, 12288}
        \cup (8192..8202)

\* s.trim()
Trim(s) ==
    LET keep == {i \in 1..Len(s) : s[i] \notin RustWhiteSpace}
    IN  IF keep = {} THEN <<>>
        ELSE SubSeq(s, CHOOSE i \in keep : \A j \in keep : i <= j,
                       CHOOSE i \in keep : \A j \in keep : i >= j)

\* s.trim_start_matches(ch)
TrimStartMatches(s, ch) ==
    LET keep == {i \in 1..Len(s) : s[i] # ch}
    IN  IF keep = {} THEN <<>>
        ELSE SubSeq(s, CHOOSE i \in keep : \A j \in keep : i <= j, Len(s))

\* s.trim_matches(ch)
TrimMatches(s, ch) ==
    LET keep == {i \in 1..Len(s) : s[i] # ch}
    IN  IF keep = {} THEN <<>>
        ELSE SubSeq(s, CHOOSE i \in keep : \A j \in keep : i <= j,
                       CHOOSE i \in keep : \A j \in keep : i >= j)

\* s.find(pat): Some(the 0-based position of the first occurrence) or None,
\* here -1.
Find(s, pat) ==
    LET at == {p \in 0..(Len(s) - Len(pat)) : SubSeq(s, p + 1, p + Len(pat)) = pat}
    IN  IF at = {} THEN -1 ELSE CHOOSE p \in at : \A o \in at : p <= o

\* s.lines(): the pieces between line feeds, without a carriage return at
\* their end; an empty piece after the last line feed is no line.
Lines(s) ==
    LET feeds == {i \in 1..Len(s) : s[i] = 10}
        count == Cardinality(feeds)
                    + (IF s # <<>> /\ s[Len(s)] # 10 THEN 1 ELSE 0)
        EndOf(k)   == IF k <= Cardinality(feeds)
                      THEN CHOOSE i \in feeds : Cardinality({j \in feeds : j <= i}) = k
                      ELSE Len(s) + 1
        StartOf(k) == IF k = 1 THEN 1 ELSE EndOf(k - 1) + 1
        Piece(k)   == SubSeq(s, StartOf(k), EndOf(k) - 1)
        NoReturn(l) == IF l # <<>> /\ l[Len(l)] = 13 THEN SubSeq(l, 1, Len(l) - 1) ELSE l
    IN  [k \in 1..count |-> NoReturn(Piece(k))]

\* All of s are ASCII digits.
AllDigits(s) == \A i \in 1..Len(s) : s[i] >= 48 /\ s[i] <= 57

\* s without a leading sign.
Unsigned(s) == IF s # <<>> /\ s[1] \in {43, 45} THEN Tail(s) ELSE s

\* value_str.parse::<i64>() is Ok: an optional sign and one digit or more
\* (magnitudes within i64).
ParsesAsI64(s) == Unsigned(s) # <<>> /\ AllDigits(Unsigned(s))

\* digits, optionally a point and digits, with one digit at least.
IsDecimal(m) ==
    \E d \in 0..Len(m) :
        /\ AllDigits(SubSeq(m, 1, d))
        /\ \/ d = Len(m) /\ d >= 1
           \/ /\ d < Len(m)
              /\ m[d + 1] = 46
              /\ AllDigits(SubSeq(m, d + 2, Len(m)))
              /\ Len(m) >= 2

\* value_str.parse::<f64>() is Ok of a finite number, which
\* Number::from_f64 takes: a decimal with an optional sign and an optional
\* exponent (magnitudes within f64).  "inf", "infinity" and "nan" parse to
\* values from_f64 refuses, and fall to the string the last branch gives
\* them as well.
ParsesAsFiniteF64(s) ==
    LET u == Unsigned(s)
    IN  \/ IsDecimal(u)
        \/ \E e \in 1..Len(u) :
                /\ u[e] \in {69, 101}
                /\ IsDecimal(SubSeq(u, 1, e - 1))
                /\ ParsesAsI64(SubSeq(u, e + 1, Len(u)))

\* The serde_json::Value of a value_str.
ValueOf(value_str) ==
    IF value_str \in {<<116, 114, 117, 101>>, <<102, 97, 108, 115, 101>>}
    THEN [kind |-> "bool", text |-> value_str]
    ELSE IF ParsesAsI64(value_str) \/ ParsesAsFiniteF64(value_str)
    THEN [kind |-> "number", text |-> value_str]
    ELSE [kind |-> "string", text |-> TrimMatches(TrimMatches(value_str, 34), 39)]

\* parse_frontmatter(source): [content, frontmatter], the frontmatter a
\* map from keys to values in which a later line replaces an earlier one
\* of the same key.
parse_frontmatter(source) ==
    LET rest    == SubSeq(source, 4, Len(source))
        end_pos == Find(rest, <<10, 45, 45, 45>>)
        frontmatter_str == TrimStartMatches(SubSeq(rest, 1, end_pos), 10)
        content == TrimStartMatches(SubSeq(rest, end_pos + 5, Len(rest)), 10)
        trimmed == [k \in DOMAIN Lines(frontmatter_str) |->
                        Trim(Lines(frontmatter_str)[k])]
        pairs   == SelectSeq(trimmed, LAMBDA line :
                        line # <<>> /\ line[1] # 35 /\ Find(line, <<58>>) # -1)
        KeyAt(k)   == Trim(SubSeq(pairs[k], 1, Find(pairs[k], <<58>>)))
        ValueAt(k) == ValueOf(Trim(SubSeq(pairs[k], Find(pairs[k], <<58>>) + 2,
                                          Len(pairs[k]))))
        Last(key)  == CHOOSE k \in DOMAIN pairs :
                        /\ KeyAt(k) = key
                        /\ \A j \in DOMAIN pairs : KeyAt(j) = key => j <= k
    IN  IF ~StartsWith(source, <<45, 45, 45>>) \/ end_pos = -1
        THEN [content |-> source, frontmatter |-> <<>>]
        ELSE [content |-> content,
              frontmatter |-> [key \in {KeyAt(k) : k \in DOMAIN pairs} |->
                                    ValueAt(Last(key))]]

\* The key "title".
TitleKey == <<116, 105, 116, 108, 101>>

\* frontmatter.get("title").and_then(|v| v.as_str()).map(String::from)
FrontmatterTitle(frontmatter) ==
    IF TitleKey \in DOMAIN frontmatter /\ frontmatter[TitleKey].kind = "string"
    THEN Some(frontmatter[TitleKey].text)
    ELSE None

\* The Markdown parser and DocumentIndexer are other crates of the
\* repository.  The nodes of a content, by the Markdown every parser
\* agrees on: a line of one to six # and a space is a heading, the lines
\* between two fence lines ``` are a code block, a blank line and a line of
\* dashes carry no text, every other line is a paragraph.
IsFence(line) == StartsWith(line, <<96, 96, 96>>)

HeadingMarks(line) ==
    IF \E n \in 1..6 : /\ Len(line) > n
                       /\ \A i \in 1..n : line[i] = 35
                       /\ line[n + 1] = 32
    THEN CHOOSE n \in 1..6 : /\ Len(line) > n
                             /\ \A i \in 1..n : line[i] = 35
                             /\ line[n + 1] = 32
    ELSE 0

RECURSIVE ParseLines(_, _, _, _)
ParseLines(lines, inCode, block, nodes) ==
    IF lines = <<>>
    THEN IF inCode THEN Append(nodes, [kind |-> "code", text |-> block]) ELSE nodes
    ELSE LET line == Head(lines)
         IN  IF inCode
             THEN IF IsFence(line)
                  THEN ParseLines(Tail(lines), FALSE, <<>>,
                                  Append(nodes, [kind |-> "code", text |-> block]))
                  ELSE ParseLines(Tail(lines), TRUE, block \o line \o <<10>>, nodes)
             ELSE IF IsFence(line)
             THEN ParseLines(Tail(lines), TRUE, <<>>, nodes)
             ELSE IF HeadingMarks(line) > 0
             THEN ParseLines(Tail(lines), FALSE, <<>>,
                    Append(nodes, [kind |-> "heading",
                                   text |-> Trim(SubSeq(line, HeadingMarks(line) + 1,
                                                        Len(line)))]))
             ELSE IF Trim(line) = <<>> \/ TrimMatches(Trim(line), 45) = <<>>
             THEN ParseLines(Tail(lines), FALSE, <<>>, nodes)
             ELSE ParseLines(Tail(lines), FALSE, <<>>,
                    Append(nodes, [kind |-> "paragraph", text |-> Trim(line)]))

\* Parser::parse of a content the parser accepts: the document tree.
ParseMarkdown(content) == ParseLines(Lines(content), FALSE, <<>>, <<>>)

\* The texts of the nodes of one kind, in document order.
TextsOf(nodes, kind) ==
    LET of == SelectSeq(nodes, LAMBDA n : n.kind = kind)
    IN  [k \in DOMAIN of |-> of[k].text]

\* The texts of a sequence, one after the other.
RECURSIVE Concat(_)
Concat(texts) == IF texts = <<>> THEN <<>> ELSE Head(texts) \o Concat(Tail(texts))

\* DocumentIndexer::extract (spec 4.1): title the text of the first
\* heading if there is one, headings the text of every heading, code the
\* text of every code block, body the text of the other nodes.
Extract(nodes) ==
    [title    |-> IF TextsOf(nodes, "heading") = <<>> THEN None
                  ELSE Some(TextsOf(nodes, "heading")[1]),
     body     |-> Concat(TextsOf(nodes, "paragraph")),
     headings |-> TextsOf(nodes, "heading"),
     code     |-> TextsOf(nodes, "code")]

\* frontmatter_title.unwrap_or_else(|| indexer.title().map(String::from)
\*     .unwrap_or_default())
TitleOf(frontmatter_title, indexed) ==
    UnwrapOr(frontmatter_title, UnwrapOr(indexed.title, <<>>))

\* extract_search_content(source, id, url, options), `parses` telling
\* whether parser.parse() is Ok.
ExtractDroppingTitle(source, id, url, parses) ==
    LET parsed  == parse_frontmatter(source)
        frontmatter_title == FrontmatterTitle(parsed.frontmatter)
        indexed == Extract(ParseMarkdown(parsed.content))
    IN  IF parses
        THEN [id |-> id, title |-> TitleOf(frontmatter_title, indexed), url |-> url,
              body |-> indexed.body, headings |-> indexed.headings,
              code |-> indexed.code]
        ELSE [id |-> id, title |-> <<>>, url |-> url,
              body |-> <<>>, headings |-> <<>>, code |-> <<>>]

extract_search_content(source, id, url, parses) ==
    LET parsed  == parse_frontmatter(source)
        frontmatter_title == FrontmatterTitle(parsed.frontmatter)
        indexed == Extract(ParseMarkdown(parsed.content))
    IN  IF parses
        THEN [id |-> id, title |-> TitleOf(frontmatter_title, indexed), url |-> url,
              body |-> indexed.body, headings |-> indexed.headings,
              code |-> indexed.code]
        ELSE [id |-> id, title |-> UnwrapOr(frontmatter_title, <<>>), url |-> url,
              body |-> <<>>, headings |-> <<>>, code |-> <<>>]

\* ------------------------------------------- build_search_index, stepwise

\* The SearchDocument build_search_index makes of a JsSearchDocument.
SearchDocumentMixed(doc) ==
    [id |-> doc.id, title |-> doc.body, url |-> doc.url, body |-> doc.title,
     headings |-> doc.headings, code |-> doc.code]

SearchDocumentWithoutCode(doc) ==
    [id |-> doc.id, title |-> doc.title, url |-> doc.url, body |-> doc.body,
     headings |-> doc.headings, code |-> <<>>]

SearchDocumentFirstHeading(doc) ==
    [id |-> doc.id, title |-> doc.title, url |-> doc.url, body |-> doc.body,
     headings |-> IF doc.headings = <<>> THEN <<>> ELSE <<Head(doc.headings)>>,
     code |-> doc.code]

SearchDocumentOf(doc) ==
    [id |-> doc.id, title |-> doc.title, url |-> doc.url, body |-> doc.body,
     headings |-> doc.headings, code |-> doc.code]

\* SearchIndexBuilder with its state (spec 4.2): Open until build, Built
\* from then on.
OpenBuilder == [state |-> "Open", acc |-> NewBuilder, built |-> <<>>]

\* add_document: accepted by an Open builder; an error, which leaves the
\* builder as it is, on a Built one.
add_document(b, doc) ==
    IF b.state = "Open"
    THEN [ok |-> TRUE, builder |-> [b EXCEPT !.acc = AddDocument(@, doc)]]
    ELSE [ok |-> FALSE, builder |-> b]

\* build: Open to Built.
build(b) == [state |-> "Built", acc |-> b.acc, built |-> Build(b.acc)]

\* No document extracted yet.
NotExtracted == [id |-> "", title |-> <<>>, url |-> "", body |-> <<>>,
                 headings |-> <<>>, code |-> <<>>]

\* The extraction harness at rest.
ExtractIdle ==
    /\ exSource = <<>>
    /\ exId = ""
    /\ exParses = TRUE
    /\ exDoc = NotExtracted

\* The build harness at rest.
BuildIdle ==
    /\ bDocs = <<>>
    /\ bNext = 1
    /\ builder = OpenBuilder
    /\ bCalls = <<>>
    /\ bOut = Unparseable
    /\ bRefused = FALSE

\* --------------------------------------------------------- search harness

Dots(n) == [i \in 1..n |-> 46]

\* The documents corpora are made of.
\*   1: title "Ab", body "b a"
\*   2: title "a", heading "ab", body "abc ab ab", code "b"
\*   3: no title, body "b" 59 dots "aB" 120 dots, code U+4E2D "a"
\*   4: title "ab", empty body
\*   5: title "b", body 70 dots "ab"
Pool ==
    << [id |-> 0, title |-> <<65, 98>>, url |-> "/one", body |-> <<98, 32, 97>>,
        headings |-> <<>>, code |-> <<>>],
       [id |-> 0, title |-> <<97>>, url |-> "/two",
        body |-> <<97, 98, 99, 32, 97, 98, 32, 97, 98>>,
        headings |-> <<(<<97, 98>>)>>, code |-> <<(<<98>>)>>],
       [id |-> 0, title |-> <<>>, url |-> "/three",
        body |-> <<98>> \o Dots(59) \o <<97, 66>> \o Dots(120),
        headings |-> <<>>, code |-> <<(<<20013, 97>>)>>],
       [id |-> 0, title |-> <<97, 98>>, url |-> "/four", body |-> <<>>,
        headings |-> <<>>, code |-> <<>>],
       [id |-> 0, title |-> <<98>>, url |-> "/five", body |-> Dots(70) \o <<97, 98>>,
        headings |-> <<>>, code |-> <<>>] >>

\* n documents: the pool taken round from `start`, the i-th with id i.
Corpus(start, n) ==
    [i \in 1..n |-> [Pool[((start + i - 2) % Len(Pool)) + 1] EXCEPT !.id = i]]

\* The small corpora, and one of more documents than a page of results.
Corpora ==
    {Corpus(start, n) : start \in 1..Len(Pool), n \in 0..MaxDocs}
        \cup {Corpus(1, PageSize + 2)}

\* The pieces queries are made of: "a", "ab", "B", "constructor", "!".
Pieces ==
    { <<97>>, <<97, 98>>, <<66>>,
      <<99, 111, 110, 115, 116, 114, 117, 99, 116, 111, 114>>, <<33>> }

\* The pieces of ps joined by single spaces.
RECURSIVE Join(_)
Join(ps) ==
    IF ps = <<>> THEN <<>>
    ELSE IF Len(ps) = 1 THEN ps[1]
    ELSE ps[1] \o <<32>> \o Join(Tail(ps))

Queries == {Join(ps) : ps \in UNION {[1..k -> Pieces] : k \in 0..MaxQueryPieces}}

\* The options search_index is called with: none, or some of limit,
\* prefix and threshold (in millionths).
OptionChoices ==
    { None,
      Some([limit |-> None, prefix |-> None, fuzzy |-> None, threshold |-> None]),
      Some([limit |-> Some(2), prefix |-> None, fuzzy |-> None, threshold |-> None]),
      Some([limit |-> None, prefix |-> Some(FALSE), fuzzy |-> Some(FALSE),
            threshold |-> None]),
      Some([limit |-> None, prefix |-> None, fuzzy |-> None,
            threshold |-> Some(1000000)]),
      Some([limit |-> Some(1), prefix |-> Some(TRUE), fuzzy |-> None,
            threshold |-> Some(3000000)]) }

SearchInit ==
    /\ pc = "start"
    /\ corpus \in Corpora
    /\ queryText \in Queries
    /\ indexJson = Unparseable
    /\ jsRet = NotRun
    /\ rsRet = [ran |-> FALSE, options |-> None, results |-> <<>>]
    /\ tokText = <<>>
    /\ tokOut = <<>>
    /\ PageInit
    /\ ExtractIdle
    /\ BuildIdle

\* build_search_index(documents) writes search-index.json.
BuildCall ==
    /\ pc = "start"
    /\ pc' = "built"
    /\ indexJson' = build_search_index(corpus)
    /\ UNCHANGED <<tokVars, corpus, queryText, jsRet, rsRet, pageVars,
                   buildVars, extractVars>>

\* The file is not the serialized index: unparseable text, null, or {}.
ServeMalformed ==
    /\ pc = "start"
    /\ corpus = <<>>
    /\ pc' = "built"
    /\ indexJson' \in {Unparseable, JsonNull, EmptyObject}
    /\ UNCHANGED <<tokVars, corpus, queryText, jsRet, rsRet, pageVars,
                   buildVars, extractVars>>

\* search(q) in the page, to its end.
JsSearchCall ==
    /\ pc = "built"
    /\ jsRet = NotRun
    /\ jsRet' = SearchRun(indexJson, queryText)
    /\ UNCHANGED <<pc, tokVars, corpus, indexJson, queryText, rsRet, pageVars,
                   buildVars, extractVars>>

\* search_index(index_json, query, options)
SearchIndexCall ==
    /\ pc = "built"
    /\ ~rsRet.ran
    /\ \E options \in OptionChoices :
            rsRet' = [ran |-> TRUE, options |-> options,
                      results |-> search_index(indexJson, queryText, options)]
    /\ UNCHANGED <<pc, tokVars, corpus, indexJson, queryText, jsRet, pageVars,
                   buildVars, extractVars>>

SearchNext == BuildCall \/ ServeMalformed \/ JsSearchCall \/ SearchIndexCall

SpecSearch == SearchInit /\ [][SearchNext]_vars

\* ------------------------------------------------------ tokenizer harness

\* Every text over Alphabet of length at most n.
TextsUpTo(n) == UNION {[1..k -> Alphabet] : k \in 0..n}

TokInit ==
    /\ pc = "start"
    /\ tokText \in TextsUpTo(MaxTextLen)
    /\ tokOut = <<>>
    /\ corpus = <<>>
    /\ indexJson = Unparseable
    /\ queryText = <<>>
    /\ jsRet = NotRun
    /\ rsRet = [ran |-> FALSE, options |-> None, results |-> <<>>]
    /\ PageInit
    /\ ExtractIdle
    /\ BuildIdle

\* const tokens=tokenize(q)
TokenizeCall ==
    /\ pc = "start"
    /\ pc' = "done"
    /\ tokOut' = tokenize(tokText)
    /\ UNCHANGED <<tokText, searchVars, pageVars, buildVars, extractVars>>

TokNext == TokenizeCall

SpecTokenize == TokInit /\ [][TokNext]_vars

\* ------------------------------------------- the page (SSG_JS 1064-1073)

\* The file search-index.json the site serves: the index built from three
\* documents, or a file that is not an index.
ServedFiles ==
    { build_search_index(Corpus(1, 3)), Unparseable, JsonNull, EmptyObject }

\* What the visitor types: " ", "a", "ab", "z", "!", "constructor z".
TypedQueries ==
    { <<32>>, <<97>>, <<97, 98>>, <<122>>, <<33>>,
      <<99, 111, 110, 115, 116, 114, 117, 99, 116, 111, 114, 32, 122>> }

Init ==
    /\ pc = "page"
    /\ indexJson \in ServedFiles
    /\ corpus = <<>>
    /\ queryText = <<>>
    /\ jsRet = NotRun
    /\ rsRet = [ran |-> FALSE, options |-> None, results |-> <<>>]
    /\ tokText = <<>>
    /\ tokOut = <<>>
    /\ PageInit
    /\ ExtractIdle
    /\ BuildIdle

\* The page runs until Enter navigates away from it.
Alive == pc = "page" /\ href = ""

\* render(): "No results" for an empty `results`, else one link per result
\* with the row selectedIdx marked.
Render(rs, sel) ==
    IF rs = <<>> THEN NoResultsHtml
    ELSE [kind |-> "list", urls |-> [i \in 1..Len(rs) |-> rs[i].url], selected |-> sel]

\* search(q) from the return of loadIndex on, `index` being the value of
\* searchIndex then.
ResumeKeepingResults(q, index) ==
    IF ~Truthy(index)
    THEN /\ html' = IndexUnavailableHtml
         /\ last' = [q |-> q, outcome |-> "unavailable", loaded |-> FALSE]
         /\ UNCHANGED <<results, selectedIdx, uncaught>>
    ELSE \E run \in {SearchLoaded(index.fields, q)} :
             /\ last' = [q |-> q, outcome |-> run.outcome, loaded |-> TRUE]
             /\ CASE run.outcome = "cleared" ->
                        /\ html' = NoHtml
                        /\ results' = <<>>
                        /\ UNCHANGED <<selectedIdx, uncaught>>
                  [] run.outcome = "threw" ->
                        /\ uncaught' = TRUE
                        /\ UNCHANGED <<html, results, selectedIdx>>
                  [] OTHER ->
                        /\ results' = SliceTop(Sort(results \o run.results))
                        /\ selectedIdx' = 0
                        /\ html' = Render(results', 0)
                        /\ UNCHANGED uncaught

Resume(q, index) ==
    IF ~Truthy(index)
    THEN /\ html' = IndexUnavailableHtml
         /\ last' = [q |-> q, outcome |-> "unavailable", loaded |-> FALSE]
         /\ UNCHANGED <<results, selectedIdx, uncaught>>
    ELSE \E run \in {SearchLoaded(index.fields, q)} :
             /\ last' = [q |-> q, outcome |-> run.outcome, loaded |-> TRUE]
             /\ CASE run.outcome = "cleared" ->
                        /\ html' = NoHtml
                        /\ results' = <<>>
                        /\ UNCHANGED <<selectedIdx, uncaught>>
                  [] run.outcome = "threw" ->
                        /\ uncaught' = TRUE
                        /\ UNCHANGED <<html, results, selectedIdx>>
                  [] OTHER ->
                        /\ results' = run.results
                        /\ selectedIdx' = 0
                        /\ html' = Render(run.results, 0)
                        /\ UNCHANGED uncaught

\* openSearch: the search button, "/" outside an input, Ctrl/Cmd+K.
OpenSearch ==
    /\ Alive
    /\ isOpen' = TRUE
    /\ last' = NoSearch
    /\ rearmed' = FALSE
    /\ UNCHANGED <<buildVars, extractVars, timers, assigned, pc, tokVars, searchVars,
                   searchIndex,
                   selectedIdx, results,
                   timeout, html, inputValue, pending, fetches, href, uncaught>>

\* closeSearch: the close button, a click on the overlay, Escape in the
\* input; all of them need the modal on screen.
CloseSearch ==
    /\ Alive
    /\ isOpen
    /\ isOpen' = FALSE
    /\ inputValue' = <<>>
    /\ html' = NoHtml
    /\ selectedIdx' = 0
    /\ results' = <<>>
    /\ last' = NoSearch
    /\ rearmed' = FALSE
    /\ UNCHANGED <<buildVars, extractVars, timers, assigned, pc, tokVars, searchVars,
                   searchIndex,
                   timeout, pending,
                   fetches, href, uncaught>>

InputWithoutClear(v) ==
    /\ Alive
    /\ isOpen
    /\ inputValue' = v
    /\ timers' = timers + 1
    /\ rearmed' = timeout
    /\ timeout' = TRUE
    /\ last' = NoSearch
    /\ UNCHANGED <<buildVars, extractVars, assigned, pc, tokVars, searchVars,
                   searchIndex,
                   selectedIdx, results,
                   html, isOpen, pending, fetches, href, uncaught>>

\* The input event: if(timeout)clearTimeout(timeout);timeout=setTimeout(
\* ()=>search(searchInput.value),150).  The input takes typing only while
\* the modal is on screen.
Input(v) ==
    /\ Alive
    /\ isOpen
    /\ inputValue' = v
    /\ timers' = (IF timeout THEN timers - 1 ELSE timers) + 1
    /\ rearmed' = timeout
    /\ timeout' = TRUE
    /\ last' = NoSearch
    /\ UNCHANGED <<buildVars, extractVars, assigned, pc, tokVars, searchVars,
                   searchIndex,
                   selectedIdx, results,
                   html, isOpen, pending, fetches, href, uncaught>>

\* The timer fires: search(searchInput.value) runs up to its end, or up to
\* the fetch of loadIndex.
TimerFire ==
    /\ Alive
    /\ timeout
    /\ timeout' = FALSE
    /\ timers' = timers - 1
    /\ rearmed' = FALSE
    /\ IF IsBlank(inputValue)
       THEN /\ html' = NoHtml
            /\ results' = <<>>
            /\ last' = [q |-> inputValue, outcome |-> "cleared", loaded |-> FALSE]
            /\ UNCHANGED <<selectedIdx, uncaught, pending, fetches>>
       ELSE IF Truthy(searchIndex)
       THEN /\ Resume(inputValue, searchIndex)
            /\ UNCHANGED <<pending, fetches>>
       ELSE /\ Len(pending) < MaxPending
            /\ fetches < MaxFetches
            /\ pending' = Append(pending, inputValue)
            /\ fetches' = fetches + 1
            /\ last' = NoSearch
            /\ UNCHANGED <<html, results, selectedIdx, uncaught>>
    /\ UNCHANGED <<buildVars, extractVars, assigned, pc, tokVars, searchVars,
                   searchIndex,
                   inputValue, isOpen, href>>

\* A fetch of loadIndex settles, of the i-th suspended search:
\* searchIndex=await(await fetch(...)).json() assigns what the file parses
\* to, or the fetch or the parse throws and the catch leaves searchIndex as
\* it was; the search goes on.
FetchSettle(i, arrived) ==
    /\ Alive
    /\ i \in 1..Len(pending)
    /\ pending' = [k \in 1..(Len(pending) - 1) |->
                        IF k < i THEN pending[k] ELSE pending[k + 1]]
    /\ searchIndex' = IF arrived /\ indexJson # Unparseable
                      THEN indexJson ELSE searchIndex
    /\ assigned' = IF arrived /\ indexJson # Unparseable
                   THEN assigned + 1 ELSE assigned
    /\ Resume(pending[i], searchIndex')
    /\ rearmed' = FALSE
    /\ UNCHANGED <<buildVars, extractVars, pc, tokVars, searchVars, timeout,
                   timers, inputValue,
                   isOpen,
                   fetches, href>>

\* ArrowDown in the input.
ArrowDown ==
    /\ Alive
    /\ isOpen
    /\ selectedIdx < Len(results) - 1
    /\ selectedIdx' = selectedIdx + 1
    /\ html' = Render(results, selectedIdx')
    /\ last' = NoSearch
    /\ rearmed' = FALSE
    /\ UNCHANGED <<buildVars, extractVars, timers, assigned, pc, tokVars, searchVars,
                   searchIndex,
                   results, timeout,
                   inputValue, isOpen, pending, fetches, href, uncaught>>

\* ArrowUp in the input.
ArrowUp ==
    /\ Alive
    /\ isOpen
    /\ selectedIdx > 0
    /\ selectedIdx' = selectedIdx - 1
    /\ html' = Render(results, selectedIdx')
    /\ last' = NoSearch
    /\ rearmed' = FALSE
    /\ UNCHANGED <<buildVars, extractVars, timers, assigned, pc, tokVars, searchVars,
                   searchIndex,
                   results, timeout,
                   inputValue, isOpen, pending, fetches, href, uncaught>>

\* Enter in the input: e.key==='Enter'&&results[selectedIdx]
Enter ==
    /\ Alive
    /\ isOpen
    /\ selectedIdx + 1 \in DOMAIN results
    /\ href' = results[selectedIdx + 1].url
    /\ last' = NoSearch
    /\ rearmed' = FALSE
    /\ UNCHANGED <<buildVars, extractVars, timers, assigned, pc, tokVars, searchVars,
                   searchIndex,
                   selectedIdx, results,
                   timeout, html, inputValue, isOpen, pending, fetches, uncaught>>

Next ==
    \/ OpenSearch
    \/ CloseSearch
    \/ \E v \in TypedQueries : Input(v)
    \/ TimerFire
    \/ \E i \in 1..MaxPending, arrived \in BOOLEAN : FetchSettle(i, arrived)
    \/ ArrowDown
    \/ ArrowUp
    \/ Enter

Spec == Init /\ [][Next]_vars

\* ------------------------------------------------------ extraction harness

\* How sources begin: nothing, or a frontmatter block with
\*   title: T | title: | title: "" | title: 42 | title: true |
\*   a comment and author: a | title: T without the closing delimiter |
\*   title: 'T' then title: U | an indented "title :  1.5" and a blank line.
Frontmatters ==
    { <<>>,
      <<45, 45, 45, 10, 116, 105, 116, 108, 101, 58, 32, 84, 10, 45, 45, 45, 10>>,
      <<45, 45, 45, 10, 116, 105, 116, 108, 101, 58, 10, 45, 45, 45, 10>>,
      <<45, 45, 45, 10, 116, 105, 116, 108, 101, 58, 32, 34, 34, 10, 45, 45, 45, 10>>,
      <<45, 45, 45, 10, 116, 105, 116, 108, 101, 58, 32, 52, 50, 10, 45, 45, 45, 10>>,
      <<45, 45, 45, 10, 116, 105, 116, 108, 101, 58, 32, 116, 114, 117, 101, 10, 45, 45, 45, 10>>,
      <<45, 45, 45, 10, 35, 32, 116, 105, 116, 108, 101, 58, 32, 84, 10, 97, 117, 116, 104, 111, 114, 58, 32, 97, 10, 45, 45, 45, 10>>,
      <<45, 45, 45, 10, 116, 105, 116, 108, 101, 58, 32, 84, 10>>,
      <<45, 45, 45, 10, 116, 105, 116, 108, 101, 58, 32, 39, 84, 39, 10, 116, 105, 116, 108, 101, 58, 32, 85, 10, 45, 45, 45, 10>>,
      <<45, 45, 45, 10, 32, 32, 116, 105, 116, 108, 101, 32, 58, 32, 32, 49, 46, 53, 32, 10, 45, 45, 45, 10, 10>> }

\* How sources go on: nothing | # H | p | p, # H, ## G | a code block c
\* and # H | ## G and p q.
Contents ==
    { <<>>,
      <<35, 32, 72, 10>>,
      <<112, 10>>,
      <<112, 10, 35, 32, 72, 10, 35, 35, 32, 71, 10>>,
      <<96, 96, 96, 10, 99, 10, 96, 96, 96, 10, 35, 32, 72, 10>>,
      <<35, 35, 32, 71, 10, 112, 32, 113, 10>> }

Sources == {f \o c : f \in Frontmatters, c \in Contents}

ExtractInit ==
    /\ pc = "start"
    /\ exSource \in Sources
    /\ exId \in {"guide", "intro"}
    /\ exParses \in BOOLEAN
    /\ exDoc = NotExtracted
    /\ tokText = <<>>
    /\ tokOut = <<>>
    /\ corpus = <<>>
    /\ indexJson = Unparseable
    /\ queryText = <<>>
    /\ jsRet = NotRun
    /\ rsRet = [ran |-> FALSE, options |-> None, results |-> <<>>]
    /\ PageInit
    /\ BuildIdle

\* extract_search_content(source, id, url, options)
ExtractCall ==
    /\ pc = "start"
    /\ pc' = "done"
    /\ exDoc' = extract_search_content(exSource, exId, "/" \o exId, exParses)
    /\ UNCHANGED <<exSource, exId, exParses, tokVars, searchVars, pageVars,
                   buildVars>>

ExtractNext == ExtractCall

SpecExtract == ExtractInit /\ [][ExtractNext]_vars

\* ------------------------------------------------------------ build harness

\* The documents the build harness draws from: those of Pool and
\*   6: title "b", headings "ab" and "ab b", body "ab ab ab", code "ab"
\*      twice;
\* each with its place in the pool as id, so that a document taken twice
\* is two documents of one id.
BuildPool ==
    [i \in 1..(Len(Pool) + 1) |->
        IF i <= Len(Pool) THEN [Pool[i] EXCEPT !.id = i]
        ELSE [id |-> i, title |-> <<98>>, url |-> "/six",
              body |-> <<97, 98, 32, 97, 98, 32, 97, 98>>,
              headings |-> <<(<<97, 98>>), (<<97, 98, 32, 98>>)>>,
              code |-> <<(<<97, 98>>), (<<97, 98>>)>>]]

BuildCorpora ==
    UNION {{[i \in 1..n |-> BuildPool[f[i]]] : f \in [1..n -> 1..Len(BuildPool)]} :
           n \in 0..MaxDocs}

BuildInit ==
    /\ pc = "start"
    /\ bDocs \in BuildCorpora
    /\ bNext = 1
    /\ builder = OpenBuilder
    /\ bCalls = <<>>
    /\ bOut = Unparseable
    /\ bRefused = FALSE
    /\ tokText = <<>>
    /\ tokOut = <<>>
    /\ corpus = <<>>
    /\ indexJson = Unparseable
    /\ queryText = <<>>
    /\ jsRet = NotRun
    /\ rsRet = [ran |-> FALSE, options |-> None, results |-> <<>>]
    /\ PageInit
    /\ ExtractIdle

\* for doc in documents { builder.add_document(SearchDocument {...}) }: one
\* turn of the loop.
AddNext ==
    /\ pc = "start"
    /\ bNext <= Len(bDocs)
    /\ builder' = add_document(builder, SearchDocumentOf(bDocs[bNext])).builder
    /\ bNext' = bNext + 1
    /\ bCalls' = Append(bCalls, "add_document")
    /\ UNCHANGED <<pc, bDocs, bOut, bRefused, tokVars, searchVars, pageVars,
                   extractVars>>

BuildBeforeLastAdd ==
    /\ pc = "start"
    /\ bNext >= Len(bDocs)
    /\ builder' = build(builder)
    /\ bOut' = ToJson(builder'.built)
    /\ bCalls' = Append(bCalls, "build")
    /\ pc' = "done"
    /\ UNCHANGED <<bDocs, bNext, bRefused, tokVars, searchVars, pageVars,
                   extractVars>>

\* let index = builder.build(); index.to_json()
BuildAndSerialize ==
    /\ pc = "start"
    /\ bNext > Len(bDocs)
    /\ builder' = build(builder)
    /\ bOut' = ToJson(builder'.built)
    /\ bCalls' = Append(bCalls, "build")
    /\ pc' = "done"
    /\ UNCHANGED <<bDocs, bNext, bRefused, tokVars, searchVars, pageVars,
                   extractVars>>

\* A caller of the builder adds a document to it after build.
LateAdd ==
    /\ pc = "done"
    /\ ~bRefused
    /\ \E doc \in {BuildPool[i] : i \in 1..Len(BuildPool)} :
            /\ builder' = add_document(builder, doc).builder
            /\ bRefused' = ~add_document(builder, doc).ok
    /\ UNCHANGED <<pc, bDocs, bNext, bCalls, bOut, tokVars, searchVars, pageVars,
                   extractVars>>

BuildNext == AddNext \/ BuildAndSerialize \/ LateAdd

SpecBuild == BuildInit /\ [][BuildNext]_vars

\* ------------------------------------------------------------------ C1

\* C1: for every input text, tokenize (SSG_JS) returns exactly the term
\* sequence of the shared tokenizer (CJK characters flush the buffer and
\* are terms of their own, [A-Za-z0-9_] accumulates, anything else flushes
\* and is dropped, the end of input flushes), no term is empty, and
\* repeated terms are kept.
C1_TokenizeIsShared ==
    pc = "done" =>
        /\ tokOut = Tokenizer(tokText)
        /\ \A i \in 1..Len(tokOut) : tokOut[i] # <<>>

\* A text with an upper-case word before a CJK character and a repeated
\* term: "B", U+4E2D, "b" gives the terms b, U+4E2D, b.
C1_Witness ==
    /\ pc = "done"
    /\ tokText = <<66, 20013, 98>>
    /\ tokOut = <<(<<98>>), (<<20013>>), (<<98>>)>>

\* ------------------------------------------------- the search under test

\* The index the engines were handed, once it is built.
Built == pc = "built" /\ "index" \in DOMAIN indexJson.fields

Rendered == Built /\ jsRet.outcome = "rendered"

\* score a is lower than score b (never true of NaN).
Lower(a, b) == a # NaN /\ b # NaN /\ a < b

\* The sum of the last components of a set of tuples <<.., score>>.
RECURSIVE SumScores(_)
SumScores(S) ==
    IF S = {} THEN 0
    ELSE LET x == CHOOSE x \in S : TRUE
         IN  AddScore(x[Len(x)], SumScores(S \ {x}))

\* The index terms the claims give a token: the terms it is a prefix of for
\* a last token of length >= 2 (prefix enabled), else the identical term.
ClaimedTerms(ix, tok, isLast, prefix) ==
    IF isLast /\ prefix /\ Len(tok) >= 2
    THEN {t \in DOMAIN ix.index : StartsWith(t, tok)}
    ELSE {tok} \cap DOMAIN ix.index

\* idf x tf_component x field_boost of posting k of term t, boosts 10 for
\* Title, 5 for Heading, 1 for Body and Code.
ClaimedContribution(ix, t, k) ==
    Contribution(Idf(ix.doc_count, ix.df[t]),
        TfComponent(ix.index[t][k].tf,
            Len(ix.documents[ix.index[t][k].doc_idx + 1].body), ix.avg_dl),
        CASE ix.index[t][k].field = "Title" -> 10
          [] ix.index[t][k].field = "Heading" -> 5
          [] ix.index[t][k].field = "Body" -> 1
          [] ix.index[t][k].field = "Code" -> 1)

\* The postings of term t that point at document d.
PostingsAt(ix, t, d) == {k \in 1..Len(ix.index[t]) : ix.index[t][k].doc_idx = d}

\* The entries of the score accumulator for document d (at most one).
EntriesOf(scores, d) == {k \in 1..Len(scores) : scores[k].idx = d}

\* The options search_index ran with, as the claims read them.
ClaimedLimit == 
    IF rsRet.options = None \/ rsRet.options[1].limit = None THEN 10
    ELSE rsRet.options[1].limit[1]

ClaimedPrefix ==
    IF rsRet.options = None \/ rsRet.options[1].prefix = None THEN TRUE
    ELSE rsRet.options[1].prefix[1]

ClaimedThreshold ==
    IF rsRet.options = None \/ rsRet.options[1].threshold = None THEN 0
    ELSE rsRet.options[1].threshold[1]

\* The score accumulator of search_index's search, in insertion order.
RsScores == ScoreQuery(indexJson.fields, Tokenizer(queryText), 1, ClaimedPrefix, <<>>)

\* ------------------------------------------------------------------ C2

\* C2: the index terms matched for a token are: for every token except the
\* last, only the identical term if it is a key of index (else none); for
\* the last token, every index term having the token as a prefix when
\* prefix is enabled and the token has length >= 2, and only the identical
\* term otherwise.  The page's search has prefix matching always enabled.
C2_MatchedTerms ==
    (Built /\ jsRet.outcome # "none") =>
        \A i \in 1..Len(jsRet.tokens) :
            LET terms == MatchTerms(indexJson.fields, jsRet.tokens[i],
                                    i = Len(jsRet.tokens))
            IN  {terms[k] : k \in 1..Len(terms)} =
                    ClaimedTerms(indexJson.fields, jsRet.tokens[i],
                                 i = Len(jsRet.tokens), TRUE)

\* ------------------------------------------------------------------ C3

\* The contributions to document d's score, one for every query token,
\* every index term matched for that token and every posting of that term
\* pointing at d: <<token position, term, posting, contribution>>.
ContributionsPerToken(ix, tokens, d) ==
    UNION { UNION { { <<i, t, k, ClaimedContribution(ix, t, k)>> :
                        k \in PostingsAt(ix, t, d) } :
                    t \in ClaimedTerms(ix, tokens[i], i = Len(tokens), TRUE) } :
            i \in 1..Len(tokens) }

\* The same with every matched term counted once, however many tokens
\* matched it: <<term, posting, contribution>>.
ContributionsPerTerm(ix, tokens, d) ==
    UNION { { <<t, k, ClaimedContribution(ix, t, k)>> : k \in PostingsAt(ix, t, d) } :
            t \in UNION { ClaimedTerms(ix, tokens[i], i = Len(tokens), TRUE) :
                          i \in 1..Len(tokens) } }

\* C3 as amended: a document's final score is the sum, over every query
\* token, every index term matched for that token and every posting of the
\* term pointing at the document, of idf x tf_component x field_boost (10
\* Title, 5 Heading, 1 Body and Code; idf from the stored df and
\* doc_count), so a term matched by several tokens counts once per token;
\* the document's matches are exactly the matched terms with a posting for
\* it, and a document with no such posting is not scored.
C3_ScoreIsSumPerToken ==
    Rendered =>
        \A d \in 0..(indexJson.fields.doc_count - 1) :
            LET parts == ContributionsPerToken(indexJson.fields, jsRet.tokens, d)
                at == EntriesOf(jsRet.scores, d)
            IN  IF parts = {} THEN at = {}
                ELSE /\ Cardinality(at) = 1
                     /\ \A k \in at :
                            /\ jsRet.scores[k].score = SumScores(parts)
                            /\ jsRet.scores[k].matches = {x[2] : x \in parts}

\* C3 as stated: the sum runs over the matched terms, each once.
C3_ScoreIsSumPerTerm ==
    Rendered =>
        \A d \in 0..(indexJson.fields.doc_count - 1) :
            LET parts == ContributionsPerTerm(indexJson.fields, jsRet.tokens, d)
                at == EntriesOf(jsRet.scores, d)
            IN  IF parts = {} THEN at = {}
                ELSE /\ Cardinality(at) = 1
                     /\ \A k \in at :
                            /\ jsRet.scores[k].score = SumScores(parts)
                            /\ jsRet.scores[k].matches = {x[1] : x \in parts}

\* Query "ab ab" on documents 1 and 2: "ab" is matched by both tokens, and
\* document 2 holds it in its heading and body.
C3_Witness ==
    /\ Rendered
    /\ queryText = <<97, 98, 32, 97, 98>>
    /\ indexJson.fields.doc_count = 2
    /\ \E k \in 1..Len(jsRet.scores) :
            /\ jsRet.scores[k].idx = 1
            /\ jsRet.scores[k].matches = {<<97, 98>>, <<97, 98, 99>>}
            /\ jsRet.scores[k].score > 0

\* ------------------------------------------------------------------ C4

\* The position of the document with this id in a score accumulator.
FirstInserted(ix, scores, id) ==
    CHOOSE k \in 1..Len(scores) : ix.documents[scores[k].idx + 1].id = id

\* rs is by score descending, documents of equal score in the order
\* they entered the accumulator.
Ranked(ix, scores, rs) ==
    \A i, j \in 1..Len(rs) :
        i < j =>
            /\ ~Lower(rs[i].score, rs[j].score)
            /\ rs[i].score = rs[j].score =>
                    FirstInserted(ix, scores, rs[i].id)
                        < FirstInserted(ix, scores, rs[j].id)

\* C4: the result list of a search is ordered by score descending, two
\* documents of equal score in the order in which they were first inserted
\* into the score accumulator; no lower-scoring document precedes a
\* higher-scoring one.
C4_RankedByScore ==
    /\ Rendered => Ranked(indexJson.fields, jsRet.scores, jsRet.results)
    /\ (Built /\ rsRet.ran) => Ranked(indexJson.fields, RsScores, rsRet.results)

\* Three results, the first two of different scores and the last two tied.
C4_Witness ==
    /\ Rendered
    /\ Len(jsRet.results) >= 3
    /\ \E i \in 1..(Len(jsRet.results) - 2) :
            /\ jsRet.results[i].score > jsRet.results[i + 1].score
            /\ jsRet.results[i + 1].score = jsRet.results[i + 2].score
            /\ jsRet.results[i + 1].score # NaN

\* ------------------------------------------------------------------ C5

\* rs holds exactly the `limit` best of the accumulator entries that
\* pass `threshold`: that many of them, and none left out scores higher
\* than one returned.
TopOf(ix, scores, rs, limit, threshold) ==
    LET kept == {k \in 1..Len(scores) : AtLeast(scores[k].score, threshold)}
        returned == {rs[i].id : i \in 1..Len(rs)}
    IN  /\ Len(rs) = Min(limit, Cardinality(kept))
        /\ Cardinality(returned) = Len(rs)
        /\ \A i \in 1..Len(rs) :
                \E k \in kept :
                    /\ ix.documents[scores[k].idx + 1].id = rs[i].id
                    /\ scores[k].score = rs[i].score
        /\ \A k \in kept :
                ix.documents[scores[k].idx + 1].id \notin returned =>
                    \A i \in 1..Len(rs) : ~Lower(rs[i].score, scores[k].score)

\* C5: a search returns at most `limit` results (10 when the option is
\* absent, and always 10 in the page), and they are exactly the `limit`
\* highest-scoring documents among those that scored.
C5_LimitKeepsTheBest ==
    /\ Rendered =>
            /\ Len(jsRet.results) <= 10
            /\ TopOf(indexJson.fields, jsRet.scores, jsRet.results, 10, 0)
    /\ (Built /\ rsRet.ran) =>
            /\ Len(rsRet.results) <= ClaimedLimit
            /\ TopOf(indexJson.fields, RsScores, rsRet.results, ClaimedLimit,
                     ClaimedThreshold)

\* More than ten documents scored in the page and ten are returned, and
\* search_index with limit=2 returns two of at least five scoring documents.
C5_Witness ==
    /\ Rendered
    /\ Len(jsRet.scores) > 10
    /\ Len(jsRet.results) = 10
    /\ rsRet.ran
    /\ ClaimedLimit = 2
    /\ Len(rsRet.results) = 2

\* ------------------------------------------------------------------ C6

\* No result scores below the threshold, and the results are as many as
\* `limit` allows of the accumulator entries at or above the threshold.
Filtered(scores, rs, limit, threshold) ==
    /\ \A i \in 1..Len(rs) : ~Lower(rs[i].score, threshold)
    /\ Len(rs) =
            Min(limit, Cardinality({k \in 1..Len(scores) :
                                        ~Lower(scores[k].score, threshold)}))

\* C6: with a threshold option set, no returned result scores below the
\* threshold; a document scoring below it is excluded even when fewer than
\* `limit` documents remain, and the threshold is applied before the
\* truncation to `limit` (the results are the `limit` best of the documents
\* at or above the threshold).
C6_ThresholdFilters ==
    (Built /\ rsRet.ran /\ rsRet.options # None) =>
        Filtered(RsScores, rsRet.results, ClaimedLimit, ClaimedThreshold)

\* Some scoring document is below the threshold.
SomeBelow(scores, threshold) ==
    \E k \in 1..Len(scores) : Lower(scores[k].score, threshold)

\* A threshold excludes a scoring document although fewer than `limit`
\* results remain.
C6_Witness ==
    /\ Built /\ rsRet.ran
    /\ ClaimedThreshold > 0
    /\ SomeBelow(RsScores, ClaimedThreshold)
    /\ Len(rsRet.results) > 0
    /\ Len(rsRet.results) < ClaimedLimit

\* ------------------------------------------------------------------ C7

\* The accumulator entry behind result r.
EntryOf(ix, scores, r) == scores[FirstInserted(ix, scores, r.id)]

\* A matched term of the result occurs in its body, lowercased.
MatchInBody(ix, scores, r) ==
    \E m \in EntryOf(ix, scores, r).matches : IndexOf(ToLowerCase(r.body), m) # -1

\* C7: for every result document, if none of its matched terms occurs in
\* its body (the term matched only in the title, heading or code field),
\* the result's snippet is the empty string.
C7_NoBodyMatchNoSnippet ==
    Rendered =>
        \A i \in 1..Len(jsRet.results) :
            ~MatchInBody(indexJson.fields, jsRet.scores, jsRet.results[i])
                => jsRet.results[i].snippet = <<>>

\* ------------------------------------------------------------------ C8

\* The earliest position of a matched term in the lowercased body.
EarliestMatch(ix, scores, r) ==
    LET at == {IndexOf(ToLowerCase(r.body), m) : m \in EntryOf(ix, scores, r).matches}
                \ {-1}
    IN  CHOOSE p \in at : \A o \in at : p <= o

\* C8: for every result document whose body contains a matched term, with
\* p the earliest position of a matched term in the lowercased body, the
\* snippet window is body[start, end) with start = max(0, p - 50) and
\* end = min(body_length, start + 150): at most 150 characters, holding
\* position p; the snippet starts with "..." iff start > 0 and ends with
\* "..." iff end < body_length.
C8_SnippetWindow ==
    Rendered =>
        \A i \in 1..Len(jsRet.results) :
            LET r == jsRet.results[i]
                p == EarliestMatch(indexJson.fields, jsRet.scores, r)
                start == IF p - 50 > 0 THEN p - 50 ELSE 0
                end == IF start + 150 < Len(r.body) THEN start + 150 ELSE Len(r.body)
            IN  MatchInBody(indexJson.fields, jsRet.scores, r) =>
                    /\ end - start <= 150
                    /\ start <= p /\ p < end
                    /\ r.snippet =
                        (IF start > 0 THEN <<46, 46, 46>> ELSE <<>>)
                            \o SubSeq(r.body, start + 1, end)
                            \o (IF end < Len(r.body) THEN <<46, 46, 46>> ELSE <<>>)

\* A result whose first match is past position 50 of a body that goes on
\* past the window: both ellipses.
C8_Witness ==
    /\ Rendered
    /\ \E i \in 1..Len(jsRet.results) :
            /\ MatchInBody(indexJson.fields, jsRet.scores, jsRet.results[i])
            /\ EarliestMatch(indexJson.fields, jsRet.scores, jsRet.results[i]) = 60
            /\ Len(jsRet.results[i].snippet) = 156

\* ------------------------------------------------------------------ C9

\* No term of the index is matched by any token, as the claims read
\* matching.
NoTermMatches(ix, tokens) ==
    \A i \in 1..Len(tokens) : ClaimedTerms(ix, tokens[i], i = Len(tokens), TRUE) = {}

\* C9: when a search of the page ends, a query of no tokens (empty, blank,
\* punctuation only) has cleared the result list and `results` and shows
\* neither "No results" nor an error; and a query whose tokens match no
\* term of the loaded index has ended without a failure in an empty
\* `results`.
C9_EmptyWithoutFailure ==
    last.outcome # "none" =>
        /\ tokenize(last.q) = <<>> =>
                /\ last.outcome = "cleared"
                /\ html = NoHtml
                /\ results = <<>>
        /\ ( /\ tokenize(last.q) # <<>>
             /\ last.loaded
             /\ FromJson(searchIndex).ok
             /\ NoTermMatches(searchIndex.fields, tokenize(last.q)) ) =>
                /\ last.outcome = "rendered"
                /\ results = <<>>

\* ----------------------------------------------------------------- C10

\* The file handed to the engines is not a serialized index.
Malformed == pc = "built" /\ ~FromJson(indexJson).ok

\* C10: on a file that is not a serialized index, search_index returns no
\* result whatever the query and the options, and search(q) of the page
\* ends in an empty `results`, cleared or behind "Index unavailable",
\* never in an uncaught error.
C10_MalformedIndexDegrades ==
    Malformed =>
        /\ rsRet.ran => rsRet.results = <<>>
        /\ jsRet # NotRun =>
                /\ jsRet.outcome \in {"cleared", "unavailable"}
                /\ jsRet.results = <<>>

\* ----------------------------------------------------------------- C11

\* C11: the page loads the index lazily and once.  No fetch is issued but
\* by the search of a query that is not blank; and from the moment
\* searchIndex is set by a successful load, no step issues a fetch, and no
\* step assigns searchIndex again or resets it.
C11_LoadedLazilyAndOnce ==
    [][ /\ fetches' # fetches => (timeout /\ ~IsBlank(inputValue))
        /\ Truthy(searchIndex) =>
                /\ fetches' = fetches
                /\ assigned' = assigned
                /\ searchIndex' = searchIndex ]_vars

\* ----------------------------------------------------------------- C12

\* C12: a search never mutates the index.  Whatever queries have run, the
\* loaded index is the served file as it was parsed (documents, index, df,
\* doc_count, avg_dl), and the results a search leaves are those the same
\* query gives on a page that has run no query before.
C12_SearchLeavesIndex ==
    /\ Truthy(searchIndex) => searchIndex = indexJson
    /\ last.outcome = "rendered" => results = SearchRun(indexJson, last.q).results

\* A search has rendered two results or more on a page where an earlier
\* search, of another query, had thrown against the loaded index.
C12_Witness ==
    /\ last.outcome = "rendered"
    /\ uncaught
    /\ Len(results) >= 2
    /\ searchIndex = indexJson

\* ----------------------------------------------------------------- C13

\* search_index was called with the default options: no options, or none
\* of them set.
DefaultCall ==
    /\ rsRet.ran
    /\ ClaimedLimit = 10
    /\ ClaimedPrefix
    /\ ClaimedThreshold = 0

\* Result a of the page and result b of search_index are the same document
\* with the same score and the same snippet.
SameResult(a, b) ==
    /\ a.id = b.id
    /\ a.title = b.title
    /\ a.url = b.url
    /\ a.score = b.score
    /\ a.snippet = b.snippet

\* C13: on a well-formed index and any query, the search of the page ends
\* without failure in the ranked results the build-time algorithm gives
\* with the default options (limit 10, prefix, no fuzzy, threshold 0): the
\* same documents in the same order with the same scores and snippets.
C13_PageSearchIsBuildTimeSearch ==
    (Built /\ jsRet # NotRun /\ DefaultCall) =>
        /\ jsRet.outcome \in {"cleared", "rendered"}
        /\ Len(jsRet.results) = Len(rsRet.results)
        /\ \A i \in 1..Len(jsRet.results) :
                SameResult(jsRet.results[i], rsRet.results[i])

\* ----------------------------------------------------------------- C14

\* The value the frontmatter of the source gives `title`, or <<>> when it
\* gives none.
GivenTitle(source) ==
    IF TitleKey \in DOMAIN parse_frontmatter(source).frontmatter
    THEN parse_frontmatter(source).frontmatter[TitleKey].text
    ELSE <<>>

\* C14: the title of the extracted document is the frontmatter `title`
\* value if and only if that value is present and not empty; when it is
\* absent or empty, the title is the text of the document's first heading,
\* or empty when the document has no heading.
C14_TitleFromFrontmatterOrHeading ==
    pc = "done" =>
        exDoc.title =
            IF GivenTitle(exSource) # <<>> THEN GivenTitle(exSource)
            ELSE IF exDoc.headings # <<>> THEN exDoc.headings[1]
            ELSE <<>>

\* ----------------------------------------------------------------- C15

\* The index build_search_index returned, once it has returned.
Returned == pc = "done" /\ bOut # Unparseable

\* Every posting of index ix, with its term: <<term, place, posting>>.
PostingsOf(ix) ==
    UNION {{<<t, k, ix.index[t][k]>> : k \in 1..Len(ix.index[t])} : t \in DOMAIN ix.index}

\* C15: of n documents, build_search_index builds an index with
\* doc_count = n, whose documents[i] is the i-th document given (id, title,
\* url, body), duplicate ids kept as they come, and whose postings all
\* have a doc_idx in 0..n-1.
C15_DocumentsInOrder ==
    Returned =>
        LET ix == bOut.fields
        IN  /\ ix.doc_count = Len(bDocs)
            /\ Len(ix.documents) = Len(bDocs)
            /\ \A i \in 1..Len(bDocs) :
                    ix.documents[i] = [id |-> bDocs[i].id, title |-> bDocs[i].title,
                                       url |-> bDocs[i].url, body |-> bDocs[i].body]
            /\ \A e \in PostingsOf(ix) :
                    e[3].doc_idx >= 0 /\ e[3].doc_idx <= Len(bDocs) - 1

\* An index of three documents, the first and the last of one id and the
\* second another, with a posting for the last.
C15_Witness ==
    /\ Returned
    /\ Len(bDocs) = 3
    /\ bDocs[1].id = bDocs[3].id
    /\ bDocs[1].id # bDocs[2].id
    /\ \E e \in PostingsOf(bOut.fields) : e[3].doc_idx = 2

\* ----------------------------------------------------------------- C16

\* The terms of one field of a document given to build_search_index, by
\* the shared tokenizer: all headings together for Heading, all code
\* blocks together for Code.
FieldTerms(doc, field) ==
    CASE field = "Title"   -> Tokenizer(doc.title)
      [] field = "Heading" -> TermsOfAll(doc.headings)
      [] field = "Body"    -> Tokenizer(doc.body)
      [] OTHER             -> TermsOfAll(doc.code)

\* The terms of a document, of whatever field.
TermSet(doc) ==
    UNION {{FieldTerms(doc, f)[k] : k \in 1..Len(FieldTerms(doc, f))} :
           f \in {"Title", "Heading", "Body", "Code"}}

\* C16: in the built index, index and df have the same keys, the terms of
\* the documents; and df[t] is the number of distinct doc_idx among the
\* postings of t, which is the number of documents holding t in any field,
\* a document holding it in several fields counted once.
C16_DfCountsDocuments ==
    Returned =>
        LET ix == bOut.fields
        IN  /\ DOMAIN ix.df = DOMAIN ix.index
            /\ DOMAIN ix.index = UNION {TermSet(bDocs[i]) : i \in 1..Len(bDocs)}
            /\ \A t \in DOMAIN ix.index :
                    /\ ix.df[t] = Cardinality({ix.index[t][k].doc_idx :
                                                    k \in 1..Len(ix.index[t])})
                    /\ ix.df[t] = Cardinality({i \in 1..Len(bDocs) :
                                                    t \in TermSet(bDocs[i])})

\* A term with two postings for one document and a posting for another:
\* three postings or more, and a df below their number.
C16_Witness ==
    /\ Returned
    /\ \E t \in DOMAIN bOut.fields.index :
            /\ \E j, k \in 1..Len(bOut.fields.index[t]) :
                    /\ j # k
                    /\ bOut.fields.index[t][j].doc_idx = bOut.fields.index[t][k].doc_idx
            /\ bOut.fields.df[t] >= 2
            /\ bOut.fields.df[t] < Len(bOut.fields.index[t])

\* ----------------------------------------------------------------- C17

\* The calls build_search_index makes on its builder for n documents: n
\* add_document calls, then one build.
CallsFor(n) == [k \in 1..(n + 1) |-> IF k <= n THEN "add_document" ELSE "build"]

\* C17: the builder is Open or Built; it leaves Open only by build, to
\* Built, and never leaves Built; add_document changes the builder only
\* while it is Open, and after build it is refused and leaves the builder,
\* its built index and the serialized index as they were; build_search_index
\* calls add_document once per document and then build once.
C17_OpenThenBuilt ==
    [][ /\ builder.state \in {"Open", "Built"}
        /\ builder'.state \in {"Open", "Built"}
        /\ builder'.state # builder.state =>
                /\ builder.state = "Open"
                /\ builder'.state = "Built"
                /\ bCalls' = Append(bCalls, "build")
        /\ builder.state = "Built" =>
                /\ builder' = builder
                /\ bOut' = bOut
                /\ bCalls' = bCalls
        /\ (builder.state = "Built" /\ builder' = builder /\ bRefused' # bRefused) =>
                bRefused'
        /\ (builder.state = "Open" /\ builder'.state = "Open") =>
                /\ bCalls' = Append(bCalls, "add_document")
                /\ builder'.built = <<>>
        /\ pc' = "done" =>
                /\ builder'.state = "Built"
                /\ bCalls' = CallsFor(Len(bDocs))
                /\ bOut' = ToJson(builder'.built)
                /\ builder'.built = BuiltIndex([i \in 1..Len(bDocs) |->
                                                    SearchDocumentOf(bDocs[i])]) ]_vars

\* add_document was called on a builder that had built an index of two
\* documents or more, and was refused.
C17_Witness ==
    /\ bRefused
    /\ builder.state = "Built"
    /\ Len(bDocs) >= 2
    /\ bOut = ToJson(builder.built)

\* ----------------------------------------------------------------- C18

\* The options search_index searches with, for the options it was given.
OptionsUsed(options) ==
    IF options = None THEN DefaultOptions ELSE SearchOptionsFrom(options[1])

NodesOf(source) == ParseMarkdown(parse_frontmatter(source).content)

\* The frontmatter title of a source as a string, or the empty string.
TitleOrEmpty(source) ==
    UnwrapOr(FrontmatterTitle(parse_frontmatter(source).frontmatter), <<>>)

\* C19: extract_search_content returns a document for every source, with
\* the caller's id and url.  When the Markdown parse fails, body is the
\* empty string, headings and code are empty sequences and title is the
\* frontmatter title, or the empty string without one.  When it succeeds,
\* a document without paragraphs has an empty body, one without code
\* blocks an empty code sequence, and one without headings an empty
\* headings sequence and the frontmatter title or the empty string as
\* title.
C19_ExtractionDegradesToEmpty ==
    pc = "done" =>
        /\ DOMAIN exDoc = {"id", "title", "url", "body", "headings", "code"}
        /\ exDoc.id = exId
        /\ exDoc.url = "/" \o exId
        /\ ~exParses =>
                /\ exDoc.body = <<>>
                /\ exDoc.headings = <<>>
                /\ exDoc.code = <<>>
                /\ exDoc.title = TitleOrEmpty(exSource)
        /\ exParses =>
                /\ TextsOf(NodesOf(exSource), "paragraph") = <<>> => exDoc.body = <<>>
                /\ TextsOf(NodesOf(exSource), "code") = <<>> => exDoc.code = <<>>
                /\ TextsOf(NodesOf(exSource), "heading") = <<>> =>
                        /\ exDoc.headings = <<>>
                        /\ exDoc.title = TitleOrEmpty(exSource)

\* The parse of a source with a frontmatter title, headings, a paragraph
\* and a code block failed: the document has the title and nothing else.
C19_Witness ==
    /\ pc = "done"
    /\ ~exParses
    /\ exDoc.title # <<>>
    /\ exDoc.id = "guide"
    /\ TextsOf(NodesOf(exSource), "heading") # <<>>
    /\ \/ TextsOf(NodesOf(exSource), "paragraph") # <<>>
       \/ TextsOf(NodesOf(exSource), "code") # <<>>

\* ----------------------------------------------------------------- C20

\* The postings of term t for document i (1-based) and a field.
PostingsFor(ix, t, i, field) ==
    {k \in 1..Len(ix.index[t]) :
        ix.index[t][k].doc_idx = i - 1 /\ ix.index[t][k].field = field}

\* C20: in the built index a (term, document, field) triple has one
\* posting when the term occurs in the tokenization of that field of that
\* document (all headings together for Heading, all code blocks together
\* for Code) and none otherwise, and the posting's tf is the number of
\* occurrences: never one posting per occurrence.
C20_OnePostingPerTermDocField ==
    Returned =>
        LET ix == bOut.fields
        IN  /\ \A x \in PostingsOf(ix) :
                    /\ x[3].doc_idx + 1 \in 1..Len(bDocs)
                    /\ x[3].field \in {"Title", "Heading", "Body", "Code"}
                    /\ x[3].tf >= 1
                    /\ x[3].tf = Occurrences(FieldTerms(bDocs[x[3].doc_idx + 1], x[3].field),
                                             x[1])
                    /\ PostingsFor(ix, x[1], x[3].doc_idx + 1, x[3].field) = {x[2]}
            /\ \A i \in 1..Len(bDocs) :
               \A f \in {"Title", "Heading", "Body", "Code"} :
               \A k \in 1..Len(FieldTerms(bDocs[i], f)) :
                    /\ FieldTerms(bDocs[i], f)[k] \in DOMAIN ix.index
                    /\ Cardinality(PostingsFor(ix, FieldTerms(bDocs[i], f)[k], i, f)) = 1

\* A term that occurs three times in the body of a document, and twice in
\* its headings, in two different headings or more: one Body posting with
\* tf 3 and one Heading posting with tf 2 or more.
C20_Witness ==
    /\ Returned
    /\ \E t \in DOMAIN bOut.fields.index :
       \E j, k \in 1..Len(bOut.fields.index[t]) :
            /\ bOut.fields.index[t][j].field = "Body"
            /\ bOut.fields.index[t][j].tf = 3
            /\ bOut.fields.index[t][k].field = "Heading"
            /\ bOut.fields.index[t][k].tf >= 2
            /\ bOut.fields.index[t][k].doc_idx = bOut.fields.index[t][j].doc_idx
            /\ Len(bDocs[bOut.fields.index[t][k].doc_idx + 1].headings) >= 2

\* ----------------------------------------------------------------- C21

\* C21: a search is one unit of work: while a search that has started has
\* not rendered its results, the only step the page takes is the end of
\* that search, so no other search and no event of the modal comes between
\* its start and its rendering, searches end in the order they were
\* issued, and what is displayed last is of the query issued last.
C21_SearchIsOneUnit ==
    [][ pending # <<>> =>
            /\ pending' = Tail(pending)
            /\ last'.outcome # "none"
            /\ last'.q = Head(pending) ]_vars

\* ----------------------------------------------------------------- C22

\* C22: at most one fetch of the index is in flight: a search issues a
\* fetch only when none is pending and searchIndex is unset, so a query
\* that starts while the fetch of an earlier one is pending issues none; a
\* fetch that fails leaves searchIndex as it was, and the search of the
\* next query, finding it unset, fetches again.
C22_OneFetchInFlight ==
    [][ /\ Len(pending) <= 1
        /\ Len(pending') <= 1
        /\ fetches' # fetches =>
                /\ fetches' = fetches + 1
                /\ pending = <<>>
                /\ ~Truthy(searchIndex)
        /\ (Len(pending') < Len(pending) /\ assigned' = assigned) =>
                searchIndex' = searchIndex
        /\ (timeout /\ ~timeout' /\ ~IsBlank(inputValue) /\ ~Truthy(searchIndex)) =>
                fetches' = fetches + 1 ]_vars

\* ----------------------------------------------------------------- C23

\* selectedIdx is 0 or an index into rs (0-based).
ValidSelection(sel, rs) == sel = 0 \/ (sel >= 0 /\ sel < Len(rs))

\* C23: in every state of the modal selectedIdx is 0 or an index into
\* results, and a step that navigates goes to the url of the selected
\* element of results, which is then not empty.
C23_SelectionWithinResults ==
    [][ /\ ValidSelection(selectedIdx, results)
        /\ ValidSelection(selectedIdx', results')
        /\ href' # href =>
                /\ results # <<>>
                /\ selectedIdx + 1 \in DOMAIN results
                /\ href' = results[selectedIdx + 1].url ]_vars

\* ----------------------------------------------------------------- C24

\* The modal shows nothing: no results, no result list, selection 0.
Emptied == results = <<>> /\ selectedIdx = 0 /\ html = NoHtml

\* C24: closeSearch leaves the modal closed and emptied, the input empty;
\* and as long as the input is empty, nothing having been typed since, it
\* stays emptied: no timer and no search started before the close brings
\* results or a result list back.
C24_ClosedStaysEmpty ==
    [][ /\ (isOpen /\ ~isOpen') => (inputValue' = <<>> /\ Emptied')
        /\ (inputValue = <<>> /\ Emptied /\ inputValue' = <<>>) => Emptied' ]_vars

\* ----------------------------------------------------------------- C25

\* C25: at most one timer is pending, the one `timeout` names: an input
\* event clears the pending timer before it sets its own, so after any
\* number of input events one timer is pending; a search starts only when
\* a timer expires, one search per expiry, on the value the input has at
\* that moment.
C25_OneTimerPending ==
    [][ /\ timers \in 0..1
        /\ timers' \in 0..1
        /\ timeout = (timers = 1)
        /\ timeout' = (timers' = 1)
        /\ (rearmed' \/ timers' > timers) => timers' = 1
        /\ rearmed' => (timers = 1 /\ pending' = pending /\ last'.outcome = "none")
        /\ timers' < timers =>
                \/ /\ pending' = Append(pending, inputValue)
                   /\ last'.outcome = "none"
                \/ /\ pending' = pending
                   /\ last'.outcome # "none"
                   /\ last'.q = inputValue
        /\ (Len(pending') > Len(pending)
                \/ (last'.outcome # "none" /\ pending' = pending)) =>
                timers' = timers - 1 ]_vars

\* The visitor has typed "ab" while the timer of an earlier input event
\* was pending: that timer is cleared, one timer is pending.
C25_Witness ==
    /\ rearmed
    /\ timers = 1
    /\ timeout
    /\ inputValue = <<97, 98>>

====
